---- MODULE Spec2Model ----
(***************************************************************************)
(* weighted_directed_graph (weighted_directed_graph.h): a vector of nodes, *)
(* each node owning one value and an ordered set of graph_edge records     *)
(* that name their target by its current position in the vector.           *)
(* Positions are 0-based as in the source; the end iterator of a vector of *)
(* n nodes is position n.                                                  *)
(***************************************************************************)
EXTENDS Integers, Sequences, FiniteSets

VARIABLES
    m_nodes,    \* weighted_directed_graph::m_nodes of the graph under test
    rhs_nodes,  \* m_nodes of a second graph, the right operand of operator==
    garbage,    \* what a read of m_nodes[i] with i >= size() yields (undefined behaviour)
    before,     \* m_nodes as it was when the last call started
    call,       \* the last call: its name and arguments
    ret,        \* what the last call returned
    pc,         \* where the running traversal or search stands
    algo,       \* the function that runs: "dfs", "bfs", "dijkstra", "dijkstra_path"
    start_node, \* its argument start_node
    end_node,   \* the argument end_node of dijkstra(graph, start_node, end_node)
    frontier,   \* the std::stack of dfs, the std::queue of bfs
    pq,         \* the std::priority_queue of the two dijkstra functions
    visited,    \* their std::set visited
    distances,  \* std::map distances
    previous,   \* std::map previous
    path,       \* std::vector path
    current,    \* the local current of the path reconstruction
    out,        \* the nodes processed so far, in the order they are printed
    heap,       \* every storage slot A::allocate handed out, with what became of it
    m_data,     \* weighted_graph_node_allocator::m_data of every node of m_nodes
    unweighted  \* a directed_graph given the same calls: its m_nodes and what its last call returned

\* The locals of the traversal and search functions.
locals == <<pc, algo, start_node, end_node, frontier, pq, visited, distances,
            previous, path, current, out>>

\* The storage of the node values.
extras == <<heap, m_data>>

vars == <<m_nodes, rhs_nodes, garbage, before, call, ret, locals, extras,
         unweighted>>

\* ---------------------------------------------------------------- bounds
\* Node values are 1..MaxValue and edge weights 1 and MaxWeight; a graph holds
\* at most MaxSize nodes and edges together.  Two graphs built side by
\* side take their values from 1..PairMaxValue and hold at most PairMaxSize
\* nodes and edges each.  The graphs the traversals and searches run on
\* take their values from 0..AlgoMaxValue and hold at most AlgoMaxSize
\* nodes and edges.  The graphs whose value slots are followed take
\* their values from 1..StoreMaxValue and allocate at most StoreMaxAllocs
\* slots.
MaxValue == 3
MaxWeight == 2
MaxSize == 4
PairMaxValue == 2
PairMaxSize == 3
AlgoMaxValue == 2
AlgoMaxSize == 6

Values == 1..MaxValue
\* Two weights let a node store parallel edges to one target: the smallest
\* and the largest.
Weights == {1, MaxWeight}

\* Outcome of an out-of-range read that kills the process instead of
\* yielding a T.
Trap == 0

\* ------------------------------------------------- details::graph_edge
graph_edge(to, weight) == [m_to |-> to, m_weight |-> weight]

\* graph_edge::operator<=> (defaulted): m_to first, then m_weight.
edge_less(e1, e2) ==
    \/ e1.m_to < e2.m_to
    \/ e1.m_to = e2.m_to /\ e1.m_weight < e2.m_weight

\* graph_edge::decrement
decrement(e) == [e EXCEPT !.m_to = @ - 1]

\* ------------------------------------------ details::weighted_graph_node
weighted_graph_node(t) == [value |-> t, m_adjacentNodeIndices |-> {}]

\* std::set<graph_edge>::insert: the element is added unless an equal one
\* (same m_to and same m_weight) is stored; .second tells which.
set_insert(s, e) == [set |-> s \cup {e}, second |-> e \notin s]

\* ------------------------------------------------ weighted_directed_graph
size(nodes) == Len(nodes)

\* Position of the first node holding node_value, or size() (the end
\* iterator) when there is none.
findNode(nodes, node_value) ==
    IF \E i \in 1..Len(nodes) : nodes[i].value = node_value
    THEN (CHOOSE i \in 1..Len(nodes) :
              /\ nodes[i].value = node_value
              /\ \A j \in 1..(i - 1) : nodes[j].value # node_value) - 1
    ELSE Len(nodes)

\* The adjacency set of the node at 0-based position pos.
get_adjacent_nodes_indices(nodes, pos) == nodes[pos + 1].m_adjacentNodeIndices

\* insert without the search for an existing equal value.
insert_always_appends(nodes, node_value) ==
    [nodes |-> Append(nodes, weighted_graph_node(node_value)),
     pos |-> Len(nodes), flag |-> TRUE]

\* insert reporting a duplicate with the end position instead of the
\* position of the node that holds the value.
insert_duplicate_at_end(nodes, node_value) ==
    LET iter == findNode(nodes, node_value) IN
    IF iter # Len(nodes)
    THEN [nodes |-> nodes, pos |-> Len(nodes), flag |-> FALSE]
    ELSE [nodes |-> Append(nodes, weighted_graph_node(node_value)),
          pos |-> Len(nodes), flag |-> TRUE]

insert(nodes, node_value) ==
    LET iter == findNode(nodes, node_value) IN
    IF iter # Len(nodes)
    THEN [nodes |-> nodes, pos |-> iter, flag |-> FALSE]
    ELSE [nodes |-> Append(nodes, weighted_graph_node(node_value)),
          pos |-> Len(nodes), flag |-> TRUE]

\* insert_edge with the adjacency set keyed by target alone, so that a
\* second weight for a stored target is rejected.
insert_edge_by_target(nodes, from_node_value, to_node_value, weight) ==
    LET from == findNode(nodes, from_node_value)
        to == findNode(nodes, to_node_value) IN
    IF from = Len(nodes) \/ to = Len(nodes)
    THEN [nodes |-> nodes, pos |-> 0, flag |-> FALSE]
    ELSE IF \E e \in get_adjacent_nodes_indices(nodes, from) : e.m_to = to
         THEN [nodes |-> nodes, pos |-> 0, flag |-> FALSE]
         ELSE [nodes |-> [nodes EXCEPT ![from + 1].m_adjacentNodeIndices =
                                           @ \cup {graph_edge(to, weight)}],
               pos |-> 0, flag |-> TRUE]

\* insert_edge that only looks for the source endpoint, so that a missing
\* target yields an edge to the end position.
insert_edge_unchecked_to(nodes, from_node_value, to_node_value, weight) ==
    LET from == findNode(nodes, from_node_value)
        to == findNode(nodes, to_node_value) IN
    IF from = Len(nodes)
    THEN [nodes |-> nodes, pos |-> 0, flag |-> FALSE]
    ELSE LET r == set_insert(get_adjacent_nodes_indices(nodes, from),
                             graph_edge(to, weight)) IN
         [nodes |-> [nodes EXCEPT ![from + 1].m_adjacentNodeIndices = r.set],
          pos |-> 0, flag |-> r.second]

insert_edge(nodes, from_node_value, to_node_value, weight) ==
    LET from == findNode(nodes, from_node_value)
        to == findNode(nodes, to_node_value) IN
    IF from = Len(nodes) \/ to = Len(nodes)
    THEN [nodes |-> nodes, pos |-> 0, flag |-> FALSE]
    ELSE LET to_index == to
             r == set_insert(get_adjacent_nodes_indices(nodes, from),
                             graph_edge(to_index, weight)) IN
         [nodes |-> [nodes EXCEPT ![from + 1].m_adjacentNodeIndices = r.set],
          pos |-> 0, flag |-> r.second]

\* The loop body with its two steps in the other order: every edge beyond
\* node_index is decremented first, then the edges to node_index are dropped.
relink_drops_after_shift(adjacencyIndices, node_index) ==
    LET shifted == {IF e.m_to > node_index THEN decrement(e) ELSE e :
                       e \in adjacencyIndices} IN
    {e \in shifted : e.m_to # node_index}

\* One adjacency set after the body of the loop of remove_all_links_to:
\* std::erase_if drops the edges to node_index, the rest is copied out,
\* every edge beyond node_index is decremented, and the set is rebuilt.
relink(adjacencyIndices, node_index) ==
    LET kept == {e \in adjacencyIndices : e.m_to # node_index} IN
    {IF e.m_to > node_index THEN decrement(e) ELSE e : e \in kept}

\* remove_all_links_to without the decrement: the edges beyond the removed
\* position keep their old target.
remove_all_links_to_no_shift(nodes, node_index) ==
    [i \in 1..Len(nodes) |->
        [nodes[i] EXCEPT !.m_adjacentNodeIndices =
                             {e \in @ : e.m_to # node_index}]]

remove_all_links_to(nodes, node_index) ==
    [i \in 1..Len(nodes) |->
        [nodes[i] EXCEPT !.m_adjacentNodeIndices = relink(@, node_index)]]

\* Removal that fills the gap from the back of the vector: the nodes behind
\* the range follow the nodes in front of it in reverse order.
vector_erase_unordered(nodes, first, last) ==
    LET behind == SubSeq(nodes, last + 1, Len(nodes)) IN
    SubSeq(nodes, 1, first)
        \o [k \in 1..Len(behind) |-> behind[Len(behind) + 1 - k]]

\* std::vector::erase(first, last): the nodes at positions first..last-1
\* go, the later ones move down.
vector_erase(nodes, first, last) ==
    SubSeq(nodes, 1, first) \o SubSeq(nodes, last + 1, Len(nodes))

erase_value(nodes, node_value) ==
    LET iter == findNode(nodes, node_value) IN
    IF iter = Len(nodes)
    THEN [nodes |-> nodes, pos |-> 0, flag |-> FALSE]
    ELSE [nodes |-> vector_erase(remove_all_links_to(nodes, iter),
                                 iter, iter + 1),
          pos |-> 0, flag |-> TRUE]

erase_pos(nodes, pos) ==
    IF pos = Len(nodes)
    THEN [nodes |-> nodes, pos |-> Len(nodes), flag |-> FALSE]
    ELSE [nodes |-> vector_erase(remove_all_links_to(nodes, pos),
                                 pos, pos + 1),
          pos |-> pos, flag |-> FALSE]

\* The loop of erase(first, last): remove_all_links_to for every position
\* of the range in ascending order, no node being removed in between.
RECURSIVE relink_range(_, _, _)
relink_range(nodes, iter, last) ==
    IF iter = last THEN nodes
    ELSE relink_range(IF iter # Len(nodes)
                      THEN remove_all_links_to(nodes, iter)
                      ELSE nodes,
                      iter + 1, last)

\* erase(first, last) whose loop also takes the position `last`.
erase_range_through_last(nodes, first, last) ==
    [nodes |-> vector_erase(relink_range(nodes, first, last + 1), first, last),
     pos |-> first, flag |-> FALSE]

erase_range(nodes, first, last) ==
    [nodes |-> vector_erase(relink_range(nodes, first, last), first, last),
     pos |-> first, flag |-> FALSE]

\* erase_edge whose result tells whether an edge was removed.
erase_edge_reports_removal(nodes, from_node_value, to_node_value) ==
    LET from == findNode(nodes, from_node_value)
        to == findNode(nodes, to_node_value) IN
    IF from = Len(nodes) \/ to = Len(nodes)
    THEN [nodes |-> nodes, pos |-> 0, flag |-> FALSE]
    ELSE [nodes |-> [nodes EXCEPT ![from + 1].m_adjacentNodeIndices =
                                      {e \in @ : e.m_to # to}],
          pos |-> 0,
          flag |-> \E e \in get_adjacent_nodes_indices(nodes, from) :
                       e.m_to = to]

erase_edge(nodes, from_node_value, to_node_value) ==
    LET from == findNode(nodes, from_node_value)
        to == findNode(nodes, to_node_value) IN
    IF from = Len(nodes) \/ to = Len(nodes)
    THEN [nodes |-> nodes, pos |-> 0, flag |-> FALSE]
    ELSE LET to_index == to IN
         [nodes |-> [nodes EXCEPT ![from + 1].m_adjacentNodeIndices =
                                      {e \in @ : e.m_to # to_index}],
          pos |-> 0, flag |-> TRUE]

clear(nodes) == [nodes |-> <<>>, pos |-> 0, flag |-> FALSE]

\* swap in which the argument keeps its nodes.
swap_copies_other(nodes, other_graph_nodes) ==
    [nodes |-> other_graph_nodes, other |-> other_graph_nodes]

\* swap: the two vectors exchange their buffers, elements and all.
swap(nodes, other_graph_nodes) ==
    [nodes |-> other_graph_nodes, other |-> nodes]

\* ------------------------------------------------------ value-level reads
\* m_nodes[index].value(): unchecked, so a position past the end is an
\* out-of-range read whose outcome is the state's garbage.
value_at(nodes, index) ==
    IF index < Len(nodes) THEN nodes[index + 1].value ELSE garbage

\* operator[](index): m_nodes[index].value(), unchecked.
operator_index(nodes, index) ==
    [nodes |-> nodes, thrown |-> FALSE, value |-> value_at(nodes, index)]

\* at(index) without the bounds check, as operator[].
at_unchecked(nodes, index) == operator_index(nodes, index)

\* at(index): m_nodes.at(index).value(); std::vector::at throws
\* std::out_of_range when index >= size(), and then no T is returned.
at(nodes, index) ==
    IF index >= size(nodes)
    THEN [nodes |-> nodes, thrown |-> TRUE, value |-> Trap]
    ELSE [nodes |-> nodes, thrown |-> FALSE, value |-> nodes[index + 1].value]

\* get_adjacent_nodes_values(indices) handing out the stored positions
\* instead of the values found there.
get_adjacent_nodes_positions(nodes, indices) ==
    {edge.m_to : edge \in indices}

\* get_adjacent_nodes_values(indices)
get_adjacent_nodes_values(nodes, indices) ==
    {value_at(nodes, edge.m_to) : edge \in indices}

\* get_adjacent_nodes_values_and_weights(indices)
get_adjacent_nodes_values_and_weights(nodes, indices) ==
    {<<value_at(nodes, edge.m_to), edge.m_weight>> : edge \in indices}

\* get_adjacent_nodes_values(node_value)
adjacent_values(nodes, node_value) ==
    LET iter == findNode(nodes, node_value) IN
    IF iter = Len(nodes) THEN {}
    ELSE get_adjacent_nodes_values(nodes,
                                   get_adjacent_nodes_indices(nodes, iter))

\* get_adjacent_nodes_values_and_weights(node_value)
adjacent_values_and_weights(nodes, node_value) ==
    LET iter == findNode(nodes, node_value) IN
    IF iter = Len(nodes) THEN {}
    ELSE get_adjacent_nodes_values_and_weights(
             nodes, get_adjacent_nodes_indices(nodes, iter))

\* ------------------------------------------- iteration of the result sets
\* std::pair<T, double>::operator<: first, then second.
pair_less(p, q) == p[1] < q[1] \/ (p[1] = q[1] /\ p[2] < q[2])

\* Iteration of a std::set<graph_edge>: ascending by operator<=>.
RECURSIVE edges_in_order(_)
edges_in_order(indices) ==
    IF indices = {} THEN <<>>
    ELSE LET first == CHOOSE e \in indices :
                          \A o \in indices \ {e} : edge_less(e, o) IN
         <<first>> \o edges_in_order(indices \ {first})

\* std::set<T, std::less<>>::insert on the set held as the sequence it
\* iterates in: nothing for an equal element, else the element goes in
\* front of the first greater one.
values_insert(values, value) ==
    IF \E i \in 1..Len(values) : values[i] = value THEN values
    ELSE LET smaller == Cardinality({i \in 1..Len(values) : values[i] < value}) IN
         SubSeq(values, 1, smaller) \o <<value>>
             \o SubSeq(values, smaller + 1, Len(values))

\* The pairs kept in the order of the calls, as a std::vector filled by
\* push_back would keep them.
pairs_push_back(values, pair) ==
    IF \E i \in 1..Len(values) : values[i] = pair THEN values
    ELSE Append(values, pair)

\* std::set<std::pair<T, double>, std::less<>>::insert, as values_insert.
pairs_insert(values, pair) ==
    IF \E i \in 1..Len(values) : values[i] = pair THEN values
    ELSE LET smaller == Cardinality({i \in 1..Len(values) :
                                         pair_less(values[i], pair)}) IN
         SubSeq(values, 1, smaller) \o <<pair>>
             \o SubSeq(values, smaller + 1, Len(values))

\* get_adjacent_nodes_values(indices) with the order its result iterates
\* in: the loop runs over the edges in their order and inserts each
\* neighbour value.
RECURSIVE values_loop(_, _, _)
values_loop(nodes, edges, values) ==
    IF edges = <<>> THEN values
    ELSE values_loop(nodes, Tail(edges),
                     values_insert(values, value_at(nodes, Head(edges).m_to)))

values_in_order(nodes, indices) ==
    values_loop(nodes, edges_in_order(indices), <<>>)

\* get_adjacent_nodes_values_and_weights(indices), likewise.
RECURSIVE pairs_loop(_, _, _)
pairs_loop(nodes, edges, values) ==
    IF edges = <<>> THEN values
    ELSE pairs_loop(nodes, Tail(edges),
                    pairs_insert(values,
                                 <<value_at(nodes, Head(edges).m_to),
                                   Head(edges).m_weight>>))

pairs_in_order(nodes, indices) ==
    pairs_loop(nodes, edges_in_order(indices), <<>>)

\* get_adjacent_nodes_values(node_value), in iteration order.
adjacent_values_in_order(nodes, node_value) ==
    LET iter == findNode(nodes, node_value) IN
    IF iter = Len(nodes) THEN <<>>
    ELSE values_in_order(nodes, get_adjacent_nodes_indices(nodes, iter))

\* get_adjacent_nodes_values_and_weights(node_value), in iteration order.
adjacent_values_and_weights_in_order(nodes, node_value) ==
    LET iter == findNode(nodes, node_value) IN
    IF iter = Len(nodes) THEN <<>>
    ELSE pairs_in_order(nodes, get_adjacent_nodes_indices(nodes, iter))

\* operator== comparing adjacency by stored position, not by the value
\* found there.
operator_eq_by_index(lhs, rhs) ==
    IF Len(lhs) # Len(rhs) THEN FALSE
    ELSE \A i \in 1..Len(lhs) :
            LET rhsNodeIter == findNode(rhs, lhs[i].value) IN
            /\ rhsNodeIter # Len(rhs)
            /\ {e.m_to : e \in lhs[i].m_adjacentNodeIndices}
                   = {e.m_to : e \in get_adjacent_nodes_indices(rhs, rhsNodeIter)}

\* operator== without the comparison of the sizes: every node of the left
\* graph is found in the right one with the same set of neighbour values.
operator_eq_without_size(lhs, rhs) ==
    \A i \in 1..Len(lhs) :
        LET rhsNodeIter == findNode(rhs, lhs[i].value) IN
        /\ rhsNodeIter # Len(rhs)
        /\ get_adjacent_nodes_values(lhs, lhs[i].m_adjacentNodeIndices)
               = get_adjacent_nodes_values(
                     rhs, get_adjacent_nodes_indices(rhs, rhsNodeIter))

\* operator==: equal sizes, and every node of the left graph is found in
\* the right one with the same set of neighbour values.
operator_eq(lhs, rhs) ==
    IF Len(lhs) # Len(rhs) THEN FALSE
    ELSE \A i \in 1..Len(lhs) :
            LET rhsNodeIter == findNode(rhs, lhs[i].value) IN
            /\ rhsNodeIter # Len(rhs)
            /\ get_adjacent_nodes_values(lhs, lhs[i].m_adjacentNodeIndices)
                   = get_adjacent_nodes_values(
                         rhs, get_adjacent_nodes_indices(rhs, rhsNodeIter))

\* operator!=
operator_ne(lhs, rhs) == ~operator_eq(lhs, rhs)


\* ---------------------------------------------------------------- state
EdgeCount(nodes) ==
    LET RECURSIVE Sum(_)
        Sum(i) == IF i = 0 THEN 0
                  ELSE Cardinality(nodes[i].m_adjacentNodeIndices) + Sum(i - 1)
    IN Sum(Len(nodes))

\* Some stored edge names a position past the end of the vector.
HasDangling(nodes) ==
    \E i \in 1..Len(nodes) :
        \E e \in nodes[i].m_adjacentNodeIndices : e.m_to >= Len(nodes)

\* An out-of-range read yields any T or traps; it is only ever performed
\* when some edge dangles.
GarbageFor(nodes) == IF HasDangling(nodes) THEN Values \cup {Trap} ELSE {Trap}

NoCall == [op |-> "none", x |-> 0, y |-> 0, w |-> 0]

\* T{}, the value-initialised T that std::map::operator[] stores for a key
\* it does not hold: 0 for the int of the callers.
default_T == 0

\* A std::map without entries.
EmptyMap == [k \in {} |-> 0]
NoRet == [flag |-> FALSE, pos |-> 0]

Init ==
    /\ m_nodes = <<>>
    /\ rhs_nodes = <<>>
    /\ garbage = Trap
    /\ before = <<>>
    /\ call = NoCall
    /\ ret = NoRet
    /\ pc = "idle"
    /\ algo = "none"
    /\ start_node = default_T
    /\ end_node = default_T
    /\ frontier = <<>>
    /\ pq = {}
    /\ visited = {}
    /\ distances = EmptyMap
    /\ previous = EmptyMap
    /\ path = <<>>
    /\ current = default_T
    /\ out = <<>>
    /\ heap = <<>>
    /\ m_data = <<>>
    /\ unweighted = [nodes |-> <<>>, pos |-> 0, flag |-> FALSE]

\* Nodes and edges held by the graph.
Held(nodes) == Len(nodes) + EdgeCount(nodes)

\* before, call and ret describe one call of the run, the last one: the
\* calls that lead to the graph it starts from are not recorded.
Running == call = NoCall

\* The call c runs on m_nodes and produces r.
Record(c, r) ==
    /\ m_nodes' = r.nodes
    /\ \/ /\ before' = m_nodes
          /\ call' = c
          /\ ret' = [flag |-> r.flag, pos |-> r.pos]
          /\ garbage' \in GarbageFor(r.nodes)
       \/ UNCHANGED <<before, call, ret, garbage>>
    /\ UNCHANGED <<locals, extras, unweighted>>

Insert ==
    \E v \in Values :
        /\ Running
        /\ insert(m_nodes, v).flag => Held(m_nodes) < MaxSize
        /\ Record([op |-> "insert", x |-> v, y |-> 0, w |-> 0],
                  insert(m_nodes, v))
        /\ UNCHANGED rhs_nodes

EraseValue ==
    \E v \in Values :
        /\ Running
        /\ Record([op |-> "erase_value", x |-> v, y |-> 0, w |-> 0],
                  erase_value(m_nodes, v))
        /\ UNCHANGED rhs_nodes

\* erase(const_iterator pos): pos is an iterator of this graph, end()
\* included.
ErasePos ==
    \E p \in 0..Len(m_nodes) :
        /\ Running
        /\ Record([op |-> "erase_pos", x |-> p, y |-> 0, w |-> 0],
                  erase_pos(m_nodes, p))
        /\ UNCHANGED rhs_nodes

\* erase(first, last): a valid range of this graph, first <= last <= end().
EraseRange ==
    \E f \in 0..Len(m_nodes) : \E l \in f..Len(m_nodes) :
        /\ Running
        /\ Record([op |-> "erase_range", x |-> f, y |-> l, w |-> 0],
                  erase_range(m_nodes, f, l))
        /\ UNCHANGED rhs_nodes

InsertEdge ==
    \E f \in Values, t \in Values, w \in Weights :
        /\ Running
        /\ insert_edge(m_nodes, f, t, w).flag => Held(m_nodes) < MaxSize
        /\ Record([op |-> "insert_edge", x |-> f, y |-> t, w |-> w],
                  insert_edge(m_nodes, f, t, w))
        /\ UNCHANGED rhs_nodes

EraseEdge ==
    \E f \in Values, t \in Values :
        /\ Running
        /\ Record([op |-> "erase_edge", x |-> f, y |-> t, w |-> 0],
                  erase_edge(m_nodes, f, t))
        /\ UNCHANGED rhs_nodes

Clear ==
    /\ Running
    /\ Record([op |-> "clear", x |-> 0, y |-> 0, w |-> 0], clear(m_nodes))
    /\ UNCHANGED rhs_nodes

Next ==
    \/ Insert
    \/ EraseValue
    \/ ErasePos
    \/ EraseRange
    \/ InsertEdge
    \/ EraseEdge
    \/ Clear

Spec == Init /\ [][Next]_vars

\* The graphs the calls reach, no call being observed: the steps of Spec
\* that record nothing.
QuietInsert == Insert /\ call' = NoCall

QuietEraseValue == EraseValue /\ call' = NoCall

QuietErasePos == ErasePos /\ call' = NoCall

QuietEraseRange == EraseRange /\ call' = NoCall

QuietInsertEdge == InsertEdge /\ call' = NoCall

QuietEraseEdge == EraseEdge /\ call' = NoCall

QuietClear == Clear /\ call' = NoCall

NextGraph ==
    \/ QuietInsert
    \/ QuietEraseValue
    \/ QuietErasePos
    \/ QuietEraseRange
    \/ QuietInsertEdge
    \/ QuietEraseEdge
    \/ QuietClear

SpecGraph == Init /\ [][NextGraph]_vars

\* at(index) as the last call of a run, for every index up to one past
\* the largest size: ret.flag tells that the call threw std::out_of_range,
\* ret.pos is the value it returned otherwise.
At ==
    \E index \in 0..(MaxSize + 1) :
        LET r == at(m_nodes, index) IN
        /\ Running
        /\ m_nodes' = r.nodes
        /\ before' = m_nodes
        /\ call' = [op |-> "at", x |-> index, y |-> 0, w |-> 0]
        /\ ret' = [flag |-> r.thrown, pos |-> r.value]
        /\ UNCHANGED <<rhs_nodes, garbage, locals, extras, unweighted>>

NextAccess ==
    \/ QuietInsert
    \/ QuietEraseValue
    \/ QuietErasePos
    \/ QuietEraseRange
    \/ QuietInsertEdge
    \/ QuietEraseEdge
    \/ QuietClear
    \/ At

SpecAccess == Init /\ [][NextAccess]_vars

\* ------------------------------------------------- two graphs side by side
\* SpecPair builds two graphs, the left operand of operator== in m_nodes
\* and then the right one in rhs_nodes, so that the comparison meets every
\* pair of graphs the calls can produce.  The left graph is left alone once
\* the right one has a node.
PairValues == 1..PairMaxValue

\* Two weights are enough to store parallel edges: the smallest and the
\* largest.
PairWeights == {1, MaxWeight}

PairRoom(r) == Held(r.nodes) <= PairMaxSize

LhsInsert ==
    \E v \in PairValues :
        /\ rhs_nodes = <<>>
        /\ PairRoom(insert(m_nodes, v))
        /\ m_nodes' = insert(m_nodes, v).nodes
        /\ UNCHANGED <<rhs_nodes, garbage, before, call, ret,
                       locals, extras, unweighted>>

LhsEraseValue ==
    \E v \in PairValues :
        /\ rhs_nodes = <<>>
        /\ m_nodes' = erase_value(m_nodes, v).nodes
        /\ UNCHANGED <<rhs_nodes, garbage, before, call, ret,
                       locals, extras, unweighted>>

LhsInsertEdge ==
    \E f \in PairValues, t \in PairValues, w \in PairWeights :
        /\ rhs_nodes = <<>>
        /\ PairRoom(insert_edge(m_nodes, f, t, w))
        /\ m_nodes' = insert_edge(m_nodes, f, t, w).nodes
        /\ UNCHANGED <<rhs_nodes, garbage, before, call, ret,
                       locals, extras, unweighted>>

LhsEraseEdge ==
    \E f \in PairValues, t \in PairValues :
        /\ rhs_nodes = <<>>
        /\ m_nodes' = erase_edge(m_nodes, f, t).nodes
        /\ UNCHANGED <<rhs_nodes, garbage, before, call, ret,
                       locals, extras, unweighted>>

RhsInsert ==
    \E v \in PairValues :
        /\ PairRoom(insert(rhs_nodes, v))
        /\ rhs_nodes' = insert(rhs_nodes, v).nodes
        /\ UNCHANGED <<m_nodes, garbage, before, call, ret,
                       locals, extras, unweighted>>

RhsInsertEdge ==
    \E f \in PairValues, t \in PairValues, w \in PairWeights :
        /\ PairRoom(insert_edge(rhs_nodes, f, t, w))
        /\ rhs_nodes' = insert_edge(rhs_nodes, f, t, w).nodes
        /\ UNCHANGED <<m_nodes, garbage, before, call, ret,
                       locals, extras, unweighted>>

NextPair ==
    \/ LhsInsert
    \/ LhsEraseValue
    \/ LhsInsertEdge
    \/ LhsEraseEdge
    \/ RhsInsert
    \/ RhsInsertEdge

SpecPair == Init /\ [][NextPair]_vars

\* --------------------------------------------------- swapping two graphs
\* SpecSwap builds the two graphs as SpecPair does and then calls
\* a.swap(b), once or twice in a row, on the pair.
Swap ==
    /\ Running
    /\ LET r == swap(m_nodes, rhs_nodes) IN
       /\ m_nodes' = r.nodes
       /\ rhs_nodes' = r.other
    /\ call' = [op |-> "swap", x |-> 1, y |-> 0, w |-> 0]
    /\ UNCHANGED <<garbage, before, ret, locals, extras, unweighted>>

SwapTwice ==
    /\ Running
    /\ LET once == swap(m_nodes, rhs_nodes)
           twice == swap(once.nodes, once.other) IN
       /\ m_nodes' = twice.nodes
       /\ rhs_nodes' = twice.other
    /\ call' = [op |-> "swap", x |-> 2, y |-> 0, w |-> 0]
    /\ UNCHANGED <<garbage, before, ret, locals, extras, unweighted>>

\* The second graph is built before the call.
RhsInsertBeforeSwap == RhsInsert /\ Running

RhsInsertEdgeBeforeSwap == RhsInsertEdge /\ Running

NextSwap ==
    \/ LhsInsert
    \/ LhsEraseValue
    \/ LhsInsertEdge
    \/ LhsEraseEdge
    \/ RhsInsertBeforeSwap
    \/ RhsInsertEdgeBeforeSwap
    \/ Swap
    \/ SwapTwice

SpecSwap == Init /\ [][NextSwap]_vars

\* ------------------------------------------------------ directed_graph
\* The unweighted container (directed_graph.h): the same vector of nodes,
\* each adjacency set a std::set<size_t> of target positions.
graph_node(t) == [value |-> t, m_adjacentNodeIndices |-> {}]

directed_graph_findNode(nodes, node_value) ==
    IF \E i \in 1..Len(nodes) : nodes[i].value = node_value
    THEN (CHOOSE i \in 1..Len(nodes) :
              /\ nodes[i].value = node_value
              /\ \A j \in 1..(i - 1) : nodes[j].value # node_value) - 1
    ELSE Len(nodes)

directed_graph_insert(nodes, node_value) ==
    LET iter == directed_graph_findNode(nodes, node_value) IN
    IF iter # Len(nodes)
    THEN [nodes |-> nodes, pos |-> iter, flag |-> FALSE]
    ELSE [nodes |-> Append(nodes, graph_node(node_value)),
          pos |-> Len(nodes), flag |-> TRUE]

directed_graph_insert_edge(nodes, from_node_value, to_node_value) ==
    LET from == directed_graph_findNode(nodes, from_node_value)
        to == directed_graph_findNode(nodes, to_node_value) IN
    IF from = Len(nodes) \/ to = Len(nodes)
    THEN [nodes |-> nodes, pos |-> 0, flag |-> FALSE]
    ELSE LET to_index == to
             r == set_insert(nodes[from + 1].m_adjacentNodeIndices, to_index) IN
         [nodes |-> [nodes EXCEPT ![from + 1].m_adjacentNodeIndices = r.set],
          pos |-> 0, flag |-> r.second]

\* The loop body of remove_all_links_to without the decrement.
directed_graph_relink_no_shift(adjacencyIndices, node_index) ==
    adjacencyIndices \ {node_index}

\* One adjacency set after the loop body of remove_all_links_to: node_index
\* is erased, the rest is copied to a vector, every index beyond node_index
\* is decremented, and the set is cleared and rebuilt from the vector.
directed_graph_relink(adjacencyIndices, node_index) ==
    LET indices == adjacencyIndices \ {node_index} IN
    {IF index > node_index THEN index - 1 ELSE index : index \in indices}

directed_graph_remove_all_links_to(nodes, node_index) ==
    [i \in 1..Len(nodes) |->
        [nodes[i] EXCEPT !.m_adjacentNodeIndices =
                             directed_graph_relink(@, node_index)]]

directed_graph_erase_value(nodes, node_value) ==
    LET iter == directed_graph_findNode(nodes, node_value) IN
    IF iter = Len(nodes)
    THEN [nodes |-> nodes, pos |-> 0, flag |-> FALSE]
    ELSE [nodes |-> vector_erase(directed_graph_remove_all_links_to(nodes, iter),
                                 iter, iter + 1),
          pos |-> 0, flag |-> TRUE]

directed_graph_erase_pos(nodes, pos) ==
    IF pos = Len(nodes)
    THEN [nodes |-> nodes, pos |-> Len(nodes), flag |-> FALSE]
    ELSE [nodes |-> vector_erase(directed_graph_remove_all_links_to(nodes, pos),
                                 pos, pos + 1),
          pos |-> pos, flag |-> FALSE]

\* The loop of erase(first, last).
RECURSIVE directed_graph_relink_range(_, _, _)
directed_graph_relink_range(nodes, iter, last) ==
    IF iter = last THEN nodes
    ELSE directed_graph_relink_range(
             IF iter # Len(nodes)
             THEN directed_graph_remove_all_links_to(nodes, iter)
             ELSE nodes,
             iter + 1, last)

directed_graph_erase_range(nodes, first, last) ==
    [nodes |-> vector_erase(directed_graph_relink_range(nodes, first, last),
                            first, last),
     pos |-> first, flag |-> FALSE]

directed_graph_erase_edge(nodes, from_node_value, to_node_value) ==
    LET from == directed_graph_findNode(nodes, from_node_value)
        to == directed_graph_findNode(nodes, to_node_value) IN
    IF from = Len(nodes) \/ to = Len(nodes)
    THEN [nodes |-> nodes, pos |-> 0, flag |-> FALSE]
    ELSE LET to_index == to IN
         [nodes |-> [nodes EXCEPT ![from + 1].m_adjacentNodeIndices =
                                      @ \ {to_index}],
          pos |-> 0, flag |-> TRUE]

\* get_adjacent_nodes_values(indices): m_nodes[index].value() for every
\* stored index, unchecked.
directed_graph_get_adjacent_nodes_values(nodes, indices) ==
    {value_at(nodes, index) : index \in indices}

\* get_adjacent_nodes_values(node_value)
directed_graph_adjacent_values(nodes, node_value) ==
    LET iter == directed_graph_findNode(nodes, node_value) IN
    IF iter = Len(nodes) THEN {}
    ELSE directed_graph_get_adjacent_nodes_values(
             nodes, nodes[iter + 1].m_adjacentNodeIndices)

\* ------------------------------------- the two containers side by side
\* SpecBoth gives every call to a weighted_directed_graph (m_nodes, the
\* result in ret) and to a directed_graph (unweighted); the weighted
\* insert_edge is called with the weight 1.
BothRoom(r) == Held(r.nodes) <= MaxSize

BothInsert ==
    \E v \in Values :
        LET r == insert(m_nodes, v) IN
        /\ BothRoom(r)
        /\ m_nodes' = r.nodes
        /\ ret' = [flag |-> r.flag, pos |-> r.pos]
        /\ unweighted' = directed_graph_insert(unweighted.nodes, v)
        /\ UNCHANGED <<rhs_nodes, garbage, before, call, locals, extras>>

BothEraseValue ==
    \E v \in Values :
        LET r == erase_value(m_nodes, v) IN
        /\ m_nodes' = r.nodes
        /\ ret' = [flag |-> r.flag, pos |-> r.pos]
        /\ unweighted' = directed_graph_erase_value(unweighted.nodes, v)
        /\ UNCHANGED <<rhs_nodes, garbage, before, call, locals, extras>>

BothErasePos ==
    \E pos \in 0..Len(m_nodes) :
        LET r == erase_pos(m_nodes, pos) IN
        /\ m_nodes' = r.nodes
        /\ ret' = [flag |-> r.flag, pos |-> r.pos]
        /\ unweighted' = directed_graph_erase_pos(unweighted.nodes, pos)
        /\ UNCHANGED <<rhs_nodes, garbage, before, call, locals, extras>>

BothEraseRange ==
    \E first \in 0..Len(m_nodes) :
        \E last \in first..Len(m_nodes) :
            LET r == erase_range(m_nodes, first, last) IN
            /\ m_nodes' = r.nodes
            /\ ret' = [flag |-> r.flag, pos |-> r.pos]
            /\ unweighted' =
                   directed_graph_erase_range(unweighted.nodes, first, last)
            /\ UNCHANGED <<rhs_nodes, garbage, before, call, locals, extras>>

BothInsertEdge ==
    \E f \in Values, t \in Values :
        LET r == insert_edge(m_nodes, f, t, 1) IN
        /\ BothRoom(r)
        /\ m_nodes' = r.nodes
        /\ ret' = [flag |-> r.flag, pos |-> r.pos]
        /\ unweighted' = directed_graph_insert_edge(unweighted.nodes, f, t)
        /\ UNCHANGED <<rhs_nodes, garbage, before, call, locals, extras>>

BothEraseEdge ==
    \E f \in Values, t \in Values :
        LET r == erase_edge(m_nodes, f, t) IN
        /\ m_nodes' = r.nodes
        /\ ret' = [flag |-> r.flag, pos |-> r.pos]
        /\ unweighted' = directed_graph_erase_edge(unweighted.nodes, f, t)
        /\ UNCHANGED <<rhs_nodes, garbage, before, call, locals, extras>>

NextBoth ==
    \/ BothInsert
    \/ BothEraseValue
    \/ BothErasePos
    \/ BothEraseRange
    \/ BothInsertEdge
    \/ BothEraseEdge

SpecBoth == Init /\ [][NextBoth]_vars

\* ------------------------------------------ the graphs a caller can build
\* Every graph that insert and insert_edge build from the values and weights
\* of SpecPair within its size: the graphs a third operand of operator==
\* is taken from.
RECURSIVE built_from(_, _)
built_from(done, fresh) ==
    IF fresh = {} THEN done
    ELSE LET grown == {insert(g, v).nodes : g \in fresh, v \in PairValues}
                          \cup {insert_edge(g, f, t, w).nodes :
                                   g \in fresh, f \in PairValues,
                                   t \in PairValues, w \in PairWeights}
             next == {g \in grown : Held(g) <= PairMaxSize} \ done IN
         built_from(done \cup next, next)

BuiltGraphs == built_from({<<>>}, {<<>>})

\* ------------------------------------------------ traversals and searches
\* dfs, bfs and the two dijkstra functions read the graph through
\* get_adjacent_nodes_values and get_adjacent_nodes_values_and_weights.
\* One action is one pass of a function's while loop.
AlgoValues == 0..AlgoMaxValue

\* The smallest weight a search admits and the largest of the graph.
AlgoWeights == {0, MaxWeight}

\* The path as the walk back collected it, end_node first.
not_reversed(seq) == seq

\* std::reverse(path.begin(), path.end())
Reverse(seq) == [i \in 1..Len(seq) |-> seq[Len(seq) + 1 - i]]

Range(seq) == {seq[i] : i \in 1..Len(seq)}

\* The for loop of dfs and bfs leaving after the first neighbour it pushes.
RECURSIVE push_first_unvisited(_, _, _)
push_first_unvisited(neighbors, fr, vis) ==
    IF neighbors = <<>> THEN [frontier |-> fr, visited |-> vis]
    ELSE LET neighbor == Head(neighbors) IN
         IF neighbor \notin vis
         THEN [frontier |-> Append(fr, neighbor),
               visited |-> vis \cup {neighbor}]
         ELSE push_first_unvisited(Tail(neighbors), fr, vis)

\* The for loop of dfs and bfs pushing a neighbour without marking it.
RECURSIVE push_without_marking(_, _, _)
push_without_marking(neighbors, fr, vis) ==
    IF neighbors = <<>> THEN [frontier |-> fr, visited |-> vis]
    ELSE LET neighbor == Head(neighbors) IN
         IF neighbor \notin vis
         THEN push_without_marking(Tail(neighbors), Append(fr, neighbor), vis)
         ELSE push_without_marking(Tail(neighbors), fr, vis)

\* The for loop of dfs and bfs over the neighbours of the current node: a
\* neighbour that is not in visited is pushed and marked.
RECURSIVE push_unvisited(_, _, _)
push_unvisited(neighbors, fr, vis) ==
    IF neighbors = <<>> THEN [frontier |-> fr, visited |-> vis]
    ELSE LET neighbor == Head(neighbors) IN
         IF neighbor \notin vis
         THEN push_unvisited(Tail(neighbors), Append(fr, neighbor),
                             vis \cup {neighbor})
         ELSE push_unvisited(Tail(neighbors), fr, vis)

\* std::map::operator[] used as an lvalue: map[key] = value.
map_put(map, key, value) ==
    [k \in DOMAIN map \cup {key} |-> IF k = key THEN value ELSE map[k]]

\* std::map::operator[] used as an rvalue: a missing key is stored with T{}.
map_touch(map, key) ==
    IF key \in DOMAIN map THEN map ELSE map_put(map, key, default_T)

\* pq.top() of a std::priority_queue ordered by std::greater<>: the least
\* (distance, node) pair.  No pair is pushed twice, every push of a node
\* carries a smaller distance than the one before, so pq is held as a set.
pq_top(queue) == CHOOSE p \in queue : \A q \in queue \ {p} : pair_less(p, q)

\* pq.pop()
pq_pop(queue) == queue \ {pq_top(queue)}

\* The for loop of the dijkstra functions storing a distance only for a
\* neighbour that has none yet.
RECURSIVE relax_first_only(_, _, _, _)
relax_first_only(pairs, dist, current_node, acc) ==
    IF pairs = <<>> THEN acc
    ELSE LET neighbor_node == Head(pairs)[1]
             edge_weight == Head(pairs)[2]
             new_dist == dist + edge_weight IN
         IF neighbor_node \notin DOMAIN acc.distances
         THEN relax_first_only(Tail(pairs), dist, current_node,
                    [distances |-> map_put(acc.distances, neighbor_node, new_dist),
                     previous |-> map_put(acc.previous, neighbor_node, current_node),
                     pq |-> acc.pq \cup {<<new_dist, neighbor_node>>}])
         ELSE relax_first_only(Tail(pairs), dist, current_node, acc)

\* The two lookups at the head of dijkstra(graph, start_node, end_node)
\* reduced to the one of start_node.
missing_start_only(nodes, start, end) ==
    start \notin {nodes[i].value : i \in 1..Len(nodes)}

\* The two lookups at the head of dijkstra(graph, start_node, end_node):
\* std::find over the nodes comes to std::end(graph) for one of them.
missing_endpoint(nodes, start, end) ==
    \/ start \notin {nodes[i].value : i \in 1..Len(nodes)}
    \/ end \notin {nodes[i].value : i \in 1..Len(nodes)}

\* The for loop of the dijkstra functions over the (neighbour, weight)
\* pairs of the current node.
RECURSIVE relax(_, _, _, _)
relax(pairs, dist, current_node, acc) ==
    IF pairs = <<>> THEN acc
    ELSE LET neighbor_node == Head(pairs)[1]
             edge_weight == Head(pairs)[2]
             new_dist == dist + edge_weight IN
         IF \/ neighbor_node \notin DOMAIN acc.distances
            \/ new_dist < acc.distances[neighbor_node]
         THEN relax(Tail(pairs), dist, current_node,
                    [distances |-> map_put(acc.distances, neighbor_node, new_dist),
                     previous |-> map_put(acc.previous, neighbor_node, current_node),
                     pq |-> acc.pq \cup {<<new_dist, neighbor_node>>}])
         ELSE relax(Tail(pairs), dist, current_node, acc)

\* The graph of main(): eight nodes and ten weighted edges.
ScenarioValues == <<11, 22, 33, 44, 55, 66, 77, 88>>

ScenarioEdges ==
    << <<11, 22, 2>>, <<11, 55, 1>>, <<22, 33, 3>>, <<22, 66, 1>>,
       <<33, 44, 1>>, <<44, 88, 9>>, <<55, 66, 1>>, <<55, 77, 3>>,
       <<66, 77, 1>>, <<77, 44, 1>> >>

RECURSIVE insert_all(_, _)
insert_all(nodes, values) ==
    IF values = <<>> THEN nodes
    ELSE insert_all(insert(nodes, Head(values)).nodes, Tail(values))

RECURSIVE insert_edge_all(_, _)
insert_edge_all(nodes, edges) ==
    IF edges = <<>> THEN nodes
    ELSE insert_edge_all(insert_edge(nodes, Head(edges)[1], Head(edges)[2],
                                     Head(edges)[3]).nodes,
                         Tail(edges))

ScenarioGraph == insert_edge_all(insert_all(<<>>, ScenarioValues), ScenarioEdges)

\* A value that is no node of the graph of main(), as its last call uses.
ScenarioMissing == 45

\* The values a caller passes as start_node and end_node.
Arguments ==
    IF m_nodes = ScenarioGraph
    THEN Range(ScenarioValues) \cup {ScenarioMissing}
    ELSE AlgoValues

graph_vars == <<m_nodes, rhs_nodes, garbage, before, call, ret, extras,
               unweighted>>

\* The functions read the graph by value alone, whatever the positions of
\* the nodes: the graphs they run on are built by inserting the values from
\* the largest down, so that no node sits at the position of its value
\* unless the graph holds them all.
AlgoInsert ==
    \E v \in AlgoValues :
        /\ pc = "idle"
        /\ m_nodes # ScenarioGraph
        /\ v = AlgoMaxValue - Len(m_nodes)
        /\ Held(insert(m_nodes, v).nodes) <= AlgoMaxSize
        /\ m_nodes' = insert(m_nodes, v).nodes
        /\ UNCHANGED <<rhs_nodes, garbage, before, call, ret,
                       locals, extras, unweighted>>

AlgoInsertEdge ==
    \E f \in AlgoValues, t \in AlgoValues, w \in AlgoWeights :
        /\ pc = "idle"
        /\ m_nodes # ScenarioGraph
        /\ Held(insert_edge(m_nodes, f, t, w).nodes) <= AlgoMaxSize
        /\ m_nodes' = insert_edge(m_nodes, f, t, w).nodes
        /\ UNCHANGED <<rhs_nodes, garbage, before, call, ret,
                       locals, extras, unweighted>>

\* main() up to its last insert_edge.
Scenario ==
    /\ pc = "idle"
    /\ m_nodes = <<>>
    /\ m_nodes' = ScenarioGraph
    /\ UNCHANGED <<rhs_nodes, garbage, before, call, ret,
                   locals, extras, unweighted>>

\* dfs and bfs up to their while loop.
CallTraversal ==
    \E f \in {"dfs", "bfs"}, s \in Arguments :
        /\ pc = "idle"
        /\ algo' = f
        /\ start_node' = s
        /\ frontier' = <<s>>
        /\ visited' = {s}
        /\ pc' = "loop"
        /\ UNCHANGED <<graph_vars, end_node, pq, distances, previous, path,
                       current, out>>

\* One pass of the while loop of dfs: the top of the stack is taken.
DfsStep ==
    /\ pc = "loop"
    /\ algo = "dfs"
    /\ LET current_node == frontier[Len(frontier)]
           r == push_unvisited(adjacent_values_in_order(m_nodes, current_node),
                               SubSeq(frontier, 1, Len(frontier) - 1),
                               visited) IN
       /\ out' = Append(out, current_node)
       /\ frontier' = r.frontier
       /\ visited' = r.visited
       /\ pc' = IF r.frontier = <<>> THEN "done" ELSE "loop"
    /\ UNCHANGED <<graph_vars, algo, start_node, end_node, pq, distances,
                   previous, path, current>>

\* One pass of the while loop of bfs: the front of the queue is taken.
BfsStep ==
    /\ pc = "loop"
    /\ algo = "bfs"
    /\ LET current_node == Head(frontier)
           r == push_unvisited(adjacent_values_in_order(m_nodes, current_node),
                               Tail(frontier), visited) IN
       /\ out' = Append(out, current_node)
       /\ frontier' = r.frontier
       /\ visited' = r.visited
       /\ pc' = IF r.frontier = <<>> THEN "done" ELSE "loop"
    /\ UNCHANGED <<graph_vars, algo, start_node, end_node, pq, distances,
                   previous, path, current>>

\* dijkstra(graph, start_node) up to its while loop.
CallDijkstra ==
    \E s \in Arguments :
        /\ pc = "idle"
        /\ algo' = "dijkstra"
        /\ start_node' = s
        /\ pq' = {<<0, s>>}
        /\ distances' = map_put(EmptyMap, s, 0)
        /\ pc' = "loop"
        /\ UNCHANGED <<graph_vars, end_node, frontier, visited, previous, path,
                       current, out>>

\* The body of the while loop of dijkstra(graph, start_node): the least
\* pair is popped; a node taken before is skipped, any other is marked,
\* printed and its neighbours are relaxed.
dijkstra_pass(nodes, queue, vis, dist_map, printed) ==
    LET dist == pq_top(queue)[1]
        current_node == pq_top(queue)[2]
        popped == pq_pop(queue) IN
    IF current_node \in vis
    THEN [pq |-> popped, visited |-> vis, distances |-> dist_map,
          out |-> printed]
    ELSE LET r == relax(adjacent_values_and_weights_in_order(nodes, current_node),
                        dist, current_node,
                        [distances |-> dist_map, previous |-> EmptyMap,
                         pq |-> popped]) IN
         [pq |-> r.pq, visited |-> vis \cup {current_node},
          distances |-> r.distances, out |-> Append(printed, current_node)]

\* One pass of the while loop of dijkstra(graph, start_node); the function
\* returns distances when pq is empty.
DijkstraStep ==
    /\ pc = "loop"
    /\ algo = "dijkstra"
    /\ pq' = dijkstra_pass(m_nodes, pq, visited, distances, out).pq
    /\ visited' = dijkstra_pass(m_nodes, pq, visited, distances, out).visited
    /\ distances' = dijkstra_pass(m_nodes, pq, visited, distances, out).distances
    /\ out' = dijkstra_pass(m_nodes, pq, visited, distances, out).out
    /\ pc' = IF pq' = {} THEN "done" ELSE "loop"
    /\ UNCHANGED <<graph_vars, algo, start_node, end_node, frontier, previous,
                   path, current>>

\* dijkstra(graph, start_node, end_node) up to its while loop: both
\* arguments are looked up with std::find over the nodes, and the function
\* returns an empty path when one is missing.
CallDijkstraPath ==
    \E s \in Arguments, e \in Arguments :
        /\ pc = "idle"
        /\ algo' = "dijkstra_path"
        /\ start_node' = s
        /\ end_node' = e
        /\ IF missing_endpoint(m_nodes, s, e)
           THEN /\ pc' = "done"
                /\ UNCHANGED <<pq, distances>>
           ELSE /\ pq' = {<<0, s>>}
                /\ distances' = map_put(EmptyMap, s, 0)
                /\ pc' = "loop"
        /\ UNCHANGED <<graph_vars, frontier, visited, previous, path, current,
                       out>>

\* The body of the while loop of dijkstra(graph, start_node, end_node): as
\* dijkstra_pass, but the loop is left (break) when end is taken, before
\* its neighbours are relaxed, and previous records where a distance came
\* from.
dijkstra_path_pass(nodes, end, queue, vis, dist_map, prev) ==
    LET dist == pq_top(queue)[1]
        current_node == pq_top(queue)[2]
        popped == pq_pop(queue) IN
    IF current_node \in vis
    THEN [pq |-> popped, visited |-> vis, distances |-> dist_map,
          previous |-> prev, break |-> FALSE]
    ELSE IF current_node = end
    THEN [pq |-> popped, visited |-> vis \cup {current_node},
          distances |-> dist_map, previous |-> prev, break |-> TRUE]
    ELSE LET r == relax(adjacent_values_and_weights_in_order(nodes, current_node),
                        dist, current_node,
                        [distances |-> dist_map, previous |-> prev,
                         pq |-> popped]) IN
         [pq |-> r.pq, visited |-> vis \cup {current_node},
          distances |-> r.distances, previous |-> r.previous, break |-> FALSE]

\* One pass of the while loop of dijkstra(graph, start_node, end_node); the
\* loop is left when end_node is taken or pq is empty, and current starts
\* the walk back at end_node.
DijkstraPathStep ==
    /\ pc = "loop"
    /\ algo = "dijkstra_path"
    /\ LET r == dijkstra_path_pass(m_nodes, end_node, pq, visited, distances,
                                   previous) IN
       /\ pq' = r.pq
       /\ visited' = r.visited
       /\ distances' = r.distances
       /\ previous' = r.previous
       /\ pc' = IF r.break \/ r.pq = {} THEN "rebuild" ELSE "loop"
    /\ current' = end_node
    /\ UNCHANGED <<graph_vars, algo, start_node, end_node, frontier, path, out>>

\* One pass of the loop that walks previous back from end_node, or the end
\* of the function when current is start_node.  previous[current] stores
\* T{} for a current it does not hold.  When the walk comes to a value it
\* has been at, no later pass can differ: the loop does not end and path
\* grows until memory is exhausted ("diverged").
rebuild_pass(start, walked, prev, cur) ==
    IF cur = start
    THEN [path |-> Reverse(Append(walked, start)), previous |-> prev,
          current |-> cur, pc |-> "done"]
    ELSE LET touched == map_touch(prev, cur) IN
         [path |-> Append(walked, cur), previous |-> touched,
          current |-> touched[cur],
          pc |-> IF touched[cur] \in Range(Append(walked, cur))
                 THEN "diverged" ELSE "rebuild"]

RebuildStep ==
    /\ pc = "rebuild"
    /\ path' = rebuild_pass(start_node, path, previous, current).path
    /\ previous' = rebuild_pass(start_node, path, previous, current).previous
    /\ current' = rebuild_pass(start_node, path, previous, current).current
    /\ pc' = rebuild_pass(start_node, path, previous, current).pc
    /\ UNCHANGED <<graph_vars, algo, start_node, end_node, frontier, pq,
                   visited, distances, out>>

NextAlgo ==
    \/ AlgoInsert
    \/ AlgoInsertEdge
    \/ Scenario
    \/ CallTraversal
    \/ DfsStep
    \/ BfsStep
    \/ CallDijkstra
    \/ DijkstraStep
    \/ CallDijkstraPath
    \/ DijkstraPathStep
    \/ RebuildStep

SpecAlgo == Init /\ [][NextAlgo]_vars

\* ------------------------------------------- the storage of the node values
\* Every node keeps its value in a slot of one T that its base class
\* weighted_graph_node_allocator takes from the allocator.  heap lists the
\* slots in the order they were allocated: "raw" (allocated, no T in it),
\* "live" (a T constructed in it), "dead" (its T destroyed), "released"
\* (given back to the allocator), "twice" (given back again).  m_data[i] is
\* the slot of the node m_nodes[i], nullptr for a moved-from node.
StoreMaxValue == 2
StoreMaxAllocs == 3

StoreValues == 1..StoreMaxValue

nullptr == 0

\* weighted_graph_node_allocator(const A&): m_data = m_allocator.allocate(1).
allocate(slots) == [heap |-> Append(slots, "raw"), m_data |-> Len(slots) + 1]

\* A::deallocate(p, 1); std::allocator does nothing for a null pointer.
deallocate(slots, p) ==
    IF p = nullptr THEN slots
    ELSE [slots EXCEPT ![p] = IF @ \in {"released", "twice"} THEN "twice"
                              ELSE "released"]

\* ~weighted_graph_node_allocator()
destroy_allocator(slots, p) == deallocate(slots, p)

\* ~weighted_graph_node(): the T is destroyed if the node still points at
\* one, then the base class gives the slot back.
destroy_node(slots, p) ==
    destroy_allocator(IF p # nullptr THEN [slots EXCEPT ![p] = "dead"]
                      ELSE slots,
                      p)

\* The constructor written without the base class: the slot is allocated
\* in the constructor itself, and nothing gives it back when T{ t } throws.
construct_node_without_base(slots, throws) ==
    LET base == allocate(slots) IN
    IF throws
    THEN [heap |-> base.heap, m_data |-> nullptr, thrown |-> TRUE]
    ELSE [heap |-> [base.heap EXCEPT ![base.m_data] = "live"],
          m_data |-> base.m_data, thrown |-> FALSE]

\* weighted_graph_node(graph, t, allocator): the base class allocates, the
\* body constructs T{ t } in the slot.  When that throws, the base class
\* is already complete, so its destructor runs; ~weighted_graph_node does
\* not.
construct_node(slots, throws) ==
    LET base == allocate(slots) IN
    IF throws
    THEN [heap |-> destroy_allocator(base.heap, base.m_data),
          m_data |-> nullptr, thrown |-> TRUE]
    ELSE [heap |-> [base.heap EXCEPT ![base.m_data] = "live"],
          m_data |-> base.m_data, thrown |-> FALSE]

\* weighted_graph_node(weighted_graph_node&&) for every node when the vector
\* grows: the new node takes the pointer, the old one is left with nullptr
\* and is destroyed.
RECURSIVE relocate(_, _, _)
relocate(slots, data, i) ==
    IF i > Len(data) THEN [heap |-> slots, m_data |-> data]
    ELSE LET moved == data[i]
             left == nullptr IN
         relocate(destroy_node(slots, left), [data EXCEPT ![i] = moved], i + 1)

\* m_nodes.emplace_back(*this, node_value, m_allocator): the node is
\* constructed first; if that throws the vector is as it was.  grows tells
\* whether size() had reached capacity().
emplace_back(slots, data, throws, grows) ==
    LET node == construct_node(slots, throws) IN
    IF node.thrown THEN [heap |-> node.heap, m_data |-> data, thrown |-> TRUE]
    ELSE LET r == IF grows THEN relocate(node.heap, data, 1)
                  ELSE [heap |-> node.heap, m_data |-> data] IN
         [heap |-> r.heap, m_data |-> Append(r.m_data, node.m_data),
          thrown |-> FALSE]

\* weighted_graph_node::operator=(weighted_graph_node&&) run by std::move
\* over [from, end) onto the positions from `to` on (1-based here):
\* this->m_data = std::exchange(rhs.m_data, nullptr).
RECURSIVE move_down(_, _, _)
move_down(data, to, from) ==
    IF from > Len(data) THEN data
    ELSE move_down([data EXCEPT ![to] = data[from], ![from] = nullptr],
                   to + 1, from + 1)

\* The nodes at the 1-based positions from..Len(data) are destroyed.
RECURSIVE destroy_from(_, _, _)
destroy_from(slots, data, from) ==
    IF from > Len(data) THEN slots
    ELSE destroy_from(destroy_node(slots, data[from]), data, from + 1)

\* std::vector::erase(first, last) on the slots: the nodes behind the range
\* are move-assigned down, then the last last - first nodes are destroyed.
vector_erase_slots(slots, data, first, last) ==
    IF first = last THEN [heap |-> slots, m_data |-> data]
    ELSE LET moved == IF last # Len(data)
                      THEN move_down(data, first + 1, last + 1)
                      ELSE data
             keep == Len(data) - (last - first) IN
         [heap |-> destroy_from(slots, moved, keep + 1),
          m_data |-> SubSeq(moved, 1, keep)]

\* The calls of a graph that holds its values in slots.  call names the
\* last call; its field w is 1 when the constructor of T throws in it.
StoreRoom(nodes) == Held(nodes) <= MaxSize

StoreInsert ==
    \E v \in StoreValues, throws \in BOOLEAN, grows \in BOOLEAN :
        LET found == findNode(m_nodes, v) # Len(m_nodes)
            r == emplace_back(heap, m_data, throws, grows) IN
        /\ found \/ Len(heap) < StoreMaxAllocs
        /\ StoreRoom(insert(m_nodes, v).nodes)
        /\ call' = [op |-> "insert", x |-> v, y |-> 0,
                    w |-> IF throws /\ ~found THEN 1 ELSE 0]
        /\ IF found THEN UNCHANGED <<m_nodes, heap, m_data>>
           ELSE /\ heap' = r.heap
                /\ m_data' = r.m_data
                /\ m_nodes' = IF r.thrown THEN m_nodes
                              ELSE insert(m_nodes, v).nodes
        /\ UNCHANGED <<rhs_nodes, garbage, before, ret, locals, unweighted>>

StoreInsertEdge ==
    \E f \in StoreValues, t \in StoreValues :
        /\ StoreRoom(insert_edge(m_nodes, f, t, 1).nodes)
        /\ m_nodes' = insert_edge(m_nodes, f, t, 1).nodes
        /\ call' = [op |-> "insert_edge", x |-> f, y |-> t, w |-> 1]
        /\ UNCHANGED <<rhs_nodes, garbage, before, ret,
                       locals, extras, unweighted>>

StoreEraseValue ==
    \E v \in StoreValues :
        LET iter == findNode(m_nodes, v)
            r == vector_erase_slots(heap, m_data, iter, iter + 1) IN
        /\ m_nodes' = erase_value(m_nodes, v).nodes
        /\ IF iter = Len(m_nodes) THEN UNCHANGED <<heap, m_data>>
           ELSE heap' = r.heap /\ m_data' = r.m_data
        /\ call' = [op |-> "erase_value", x |-> v, y |-> 0, w |-> 0]
        /\ UNCHANGED <<rhs_nodes, garbage, before, ret, locals, unweighted>>

StoreEraseRange ==
    \E f \in 0..Len(m_nodes) : \E l \in f..Len(m_nodes) :
        LET r == vector_erase_slots(heap, m_data, f, l) IN
        /\ m_nodes' = erase_range(m_nodes, f, l).nodes
        /\ heap' = r.heap
        /\ m_data' = r.m_data
        /\ call' = [op |-> "erase_range", x |-> f, y |-> l, w |-> 0]
        /\ UNCHANGED <<rhs_nodes, garbage, before, ret, locals, unweighted>>

\* clear(): m_nodes.clear() destroys every node.
StoreClear ==
    /\ m_nodes' = clear(m_nodes).nodes
    /\ heap' = destroy_from(heap, m_data, 1)
    /\ m_data' = <<>>
    /\ call' = [op |-> "clear", x |-> 0, y |-> 0, w |-> 0]
    /\ UNCHANGED <<rhs_nodes, garbage, before, ret, locals, unweighted>>

NextStore ==
    \/ StoreInsert
    \/ StoreInsertEdge
    \/ StoreEraseValue
    \/ StoreEraseRange
    \/ StoreClear

SpecStore == Init /\ [][NextStore]_vars

\* ---------------------------------------------------- adjacency iterators
\* A const_adjacent_weighted_nodes_iterator holds a position in the
\* adjacency set of one node and a pointer to its graph.  The pointer is
\* this_graph for the graph m_nodes, other_graph for the graph rhs_nodes and
\* nullptr for none.  A position in a std::set<graph_edge> is told by the
\* graph and the node that own the set and by the number of elements in
\* front of it; the past-the-end position has all of them in front.
this_graph == 1
other_graph == 2

\* *m_graph
nodes_of(graph) == IF graph = this_graph THEN m_nodes ELSE rhs_nodes

set_iterator(graph, pos, rank) == [graph |-> graph, node |-> pos, rank |-> rank]

\* std::set<graph_edge>::const_iterator{}: a position in no set.
singular == set_iterator(nullptr, 0, 0)

\* std::begin(iter->get_adjacent_nodes_indices())
set_begin(graph, pos) == set_iterator(graph, pos, 0)

\* std::end(iter->get_adjacent_nodes_indices())
set_end(graph, pos) ==
    set_iterator(graph, pos,
                 Cardinality(get_adjacent_nodes_indices(nodes_of(graph), pos)))

\* const_adjacent_weighted_nodes_iterator(it, graph)
adjacent_nodes_iterator(it, graph) ==
    [m_adjacentNodeIterator |-> it, m_graph |-> graph]

\* const_adjacent_weighted_nodes_iterator() = default
default_adjacent_nodes_iterator == adjacent_nodes_iterator(singular, nullptr)

\* cbegin(node_value) and begin(node_value) of the graph `graph`
cbegin_adjacent(graph, node_value) ==
    LET iter == findNode(nodes_of(graph), node_value) IN
    IF iter = Len(nodes_of(graph)) THEN default_adjacent_nodes_iterator
    ELSE adjacent_nodes_iterator(set_begin(graph, iter), graph)

\* cend(node_value) and end(node_value) of the graph `graph`
cend_adjacent(graph, node_value) ==
    LET iter == findNode(nodes_of(graph), node_value) IN
    IF iter = Len(nodes_of(graph)) THEN default_adjacent_nodes_iterator
    ELSE adjacent_nodes_iterator(set_end(graph, iter), graph)

\* operator== as the compiler would default it, member by member, the way
\* const_graph_iterator has it.
adjacent_eq_memberwise(lhs, rhs) ==
    /\ lhs.m_adjacentNodeIterator = rhs.m_adjacentNodeIterator
    /\ lhs.m_graph = rhs.m_graph

\* const_adjacent_weighted_nodes_iterator::operator==
adjacent_eq(lhs, rhs) ==
    IF lhs.m_graph = nullptr /\ rhs.m_graph = nullptr THEN TRUE
    ELSE /\ lhs.m_graph = rhs.m_graph
         /\ lhs.m_adjacentNodeIterator = rhs.m_adjacentNodeIterator

\* const_adjacent_weighted_nodes_iterator::operator!=
adjacent_ne(lhs, rhs) == ~adjacent_eq(lhs, rhs)

\* const_adjacent_weighted_nodes_iterator::increment
adjacent_increment(it) ==
    [it EXCEPT !.m_adjacentNodeIterator.rank = @ + 1]

\* operator* handing out the index of the edge, not the value of the node
\* at that index.
adjacent_deref_index(it) ==
    LET nodes == nodes_of(it.m_graph)
        pos == it.m_adjacentNodeIterator
        edge == edges_in_order(
                    get_adjacent_nodes_indices(nodes, pos.node))[pos.rank + 1] IN
    <<edge.m_to, edge.m_weight>>

\* const_adjacent_weighted_nodes_iterator::operator*: the edge at the
\* position, read as the value at its index in *m_graph and its weight.
adjacent_deref(it) ==
    LET nodes == nodes_of(it.m_graph)
        pos == it.m_adjacentNodeIterator
        edge == edges_in_order(
                    get_adjacent_nodes_indices(nodes, pos.node))[pos.rank + 1] IN
    <<value_at(nodes, edge.m_to), edge.m_weight>>

\* Every position of every adjacency set of the two graphs.
PositionsIn(graph) ==
    UNION {{set_iterator(graph, pos, rank) :
               rank \in 0..Cardinality(
                   get_adjacent_nodes_indices(nodes_of(graph), pos))} :
           pos \in 0..(Len(nodes_of(graph)) - 1)}

SetPositions == PositionsIn(this_graph) \cup PositionsIn(other_graph)

\* The iterators that hold no graph: the default-constructed one, and those
\* the public constructor makes from a position and a null graph pointer.
NoGraphIterators ==
    {default_adjacent_nodes_iterator}
        \cup {adjacent_nodes_iterator(p, nullptr) : p \in SetPositions}

\* The iterators that begin(v), end(v) and ++ yield for the nodes of the
\* two graphs.
GraphIterators == {adjacent_nodes_iterator(p, p.graph) : p \in SetPositions}

\* for (auto iter{ graph.cbegin(v) }; iter != graph.cend(v); ++iter): the
\* pairs *iter yields, in the order of the passes.
RECURSIVE adjacent_loop(_, _, _)
adjacent_loop(iter, last, seen) ==
    IF adjacent_ne(iter, last)
    THEN adjacent_loop(adjacent_increment(iter), last,
                       Append(seen, adjacent_deref(iter)))
    ELSE seen

adjacent_iteration(graph, node_value) ==
    adjacent_loop(cbegin_adjacent(graph, node_value),
                  cend_adjacent(graph, node_value), <<>>)

\* -------------------------------------------------------- node iterators
\* A const_graph_iterator holds a position in m_nodes and a pointer to the
\* graph.
graph_iterator(it, graph) == [m_nodeIterator |-> it, m_graph |-> graph]

\* begin() and cbegin()
begin_nodes(graph) == graph_iterator(0, graph)

\* end() and cend()
end_nodes(graph) == graph_iterator(size(nodes_of(graph)), graph)

\* const_graph_iterator::operator== (defaulted): member by member.
graph_iterator_eq(lhs, rhs) ==
    /\ lhs.m_nodeIterator = rhs.m_nodeIterator
    /\ lhs.m_graph = rhs.m_graph

\* const_graph_iterator::increment
graph_iterator_increment(it) == [it EXCEPT !.m_nodeIterator = @ + 1]

\* const_graph_iterator::decrement
graph_iterator_decrement(it) == [it EXCEPT !.m_nodeIterator = @ - 1]

\* const_graph_iterator::operator*: m_nodeIterator->value()
graph_iterator_deref(it) == value_at(nodes_of(it.m_graph), it.m_nodeIterator)

\* std::reverse_iterator over a graph iterator: it keeps the iterator one
\* past the element it stands for.
reverse_iterator(it) == [current |-> it]

\* rbegin() and crbegin()
rbegin_nodes(graph) == reverse_iterator(end_nodes(graph))

\* rend() and crend()
rend_nodes(graph) == reverse_iterator(begin_nodes(graph))

reverse_iterator_eq(lhs, rhs) == graph_iterator_eq(lhs.current, rhs.current)

reverse_iterator_increment(rit) ==
    reverse_iterator(graph_iterator_decrement(rit.current))

reverse_iterator_deref(rit) ==
    graph_iterator_deref(graph_iterator_decrement(rit.current))

\* for (auto iter{ graph.cbegin() }; iter != graph.cend(); ++iter): the
\* values *iter yields, in the order of the passes.
RECURSIVE forward_loop(_, _, _)
forward_loop(iter, last, seen) ==
    IF graph_iterator_eq(iter, last) THEN seen
    ELSE forward_loop(graph_iterator_increment(iter), last,
                      Append(seen, graph_iterator_deref(iter)))

forward_iteration(graph) ==
    forward_loop(begin_nodes(graph), end_nodes(graph), <<>>)

\* for (auto iter{ graph.rbegin() }; iter != graph.rend(); ++iter)
RECURSIVE reverse_loop(_, _, _)
reverse_loop(iter, last, seen) ==
    IF reverse_iterator_eq(iter, last) THEN seen
    ELSE reverse_loop(reverse_iterator_increment(iter), last,
                      Append(seen, reverse_iterator_deref(iter)))

reverse_iteration(graph) ==
    reverse_loop(rbegin_nodes(graph), rend_nodes(graph), <<>>)

\* ------------------------------------------------------------- vocabulary
NodeValues(nodes) == {nodes[i].value : i \in 1..Len(nodes)}

\* Every edge of the node holding node_value names a position inside the
\* vector, so reading its neighbours performs no out-of-range read.
Resolvable(nodes, node_value) ==
    LET iter == findNode(nodes, node_value) IN
    iter # Len(nodes) =>
        \A e \in get_adjacent_nodes_indices(nodes, iter) : e.m_to < Len(nodes)

IsNode(nodes, node_value) == node_value \in NodeValues(nodes)

\* ------------------------------------------------------------------ C1
\* C1: in every reachable state every stored edge has a target index t
\* with 0 <= t < size().
C1_EdgeTargetsInRange ==
    \A i \in 1..Len(m_nodes) :
        \A e \in m_nodes[i].m_adjacentNodeIndices :
            0 <= e.m_to /\ e.m_to < size(m_nodes)

RECURSIVE erase_one_by_one(_, _)
erase_one_by_one(nodes, vs) ==
    IF vs = <<>> THEN nodes
    ELSE erase_one_by_one(erase_value(nodes, Head(vs)).nodes, Tail(vs))

\* C3: erase(first, last) over k >= 1 nodes removes exactly the nodes of
\* the range and leaves every surviving node with its former (neighbour
\* value, weight) pairs minus those that pointed at erased nodes; the graph
\* is the one that erase(value) for each value of the range leaves.
C3_EraseRangeKeepsAdjacency ==
    (call.op = "erase_range" /\ call.y - call.x >= 1) =>
        LET range == SubSeq(before, call.x + 1, call.y)
            erased == {range[i].value : i \in 1..Len(range)} IN
        /\ NodeValues(m_nodes) = NodeValues(before) \ erased
        /\ \A u \in NodeValues(m_nodes) :
              adjacent_values_and_weights(m_nodes, u)
                  = {p \in adjacent_values_and_weights(before, u) :
                         p[1] \notin erased}
        /\ m_nodes = erase_one_by_one(
                         before, [i \in 1..Len(range) |-> range[i].value])

\* ------------------------------------------------------------------ C4
\* C4: no two nodes of the graph hold equal values.
C4_UniqueValues ==
    \A i \in 1..Len(m_nodes) : \A j \in 1..Len(m_nodes) :
        m_nodes[i].value = m_nodes[j].value => i = j

\* insert of a value that is already a node, on a graph of several nodes.
C4_Witness ==
    /\ call.op = "insert"
    /\ IsNode(before, call.x)
    /\ Len(m_nodes) >= 2

\* ------------------------------------------------------------------ C5
\* C5: insert(v) appends v and returns inserted=true when v is not a node;
\* it returns inserted=false and the position of the existing node when v
\* is a node; a second insert(v) returns inserted=false and leaves size()
\* unchanged.
C5_InsertContract ==
    call.op = "insert" =>
        /\ IF IsNode(before, call.x)
           THEN /\ ~ret.flag
                /\ m_nodes = before
                /\ ret.pos < size(before)
                /\ before[ret.pos + 1].value = call.x
           ELSE /\ ret.flag
                /\ m_nodes = Append(before, weighted_graph_node(call.x))
                /\ ret.pos = size(m_nodes) - 1
        /\ LET again == insert(m_nodes, call.x) IN
           /\ ~again.flag
           /\ size(again.nodes) = size(m_nodes)

\* insert(v) found v at a position other than the first.
C5_Witness ==
    /\ call.op = "insert"
    /\ ~ret.flag
    /\ ret.pos >= 1

\* ------------------------------------------------------------------ C6
\* C6: insert_edge(from, to, w) returns false when an endpoint is missing;
\* otherwise it adds {index of to, w} to from's adjacency set and returns
\* true exactly when that (target, weight) pair was not stored: a second
\* weight for a stored target is a new edge, an identical pair is not.
C6_InsertEdgeContract ==
    call.op = "insert_edge" =>
        IF ~IsNode(before, call.x) \/ ~IsNode(before, call.y)
        THEN ~ret.flag
        ELSE LET from == findNode(before, call.x)
                 e == graph_edge(findNode(before, call.y), call.w)
                 old == get_adjacent_nodes_indices(before, from) IN
             /\ ret.flag = (e \notin old)
             /\ size(m_nodes) = size(before)
             /\ get_adjacent_nodes_indices(m_nodes, from) = old \cup {e}
             /\ \A i \in 1..Len(before) :
                    /\ m_nodes[i].value = before[i].value
                    /\ i # from + 1 => m_nodes[i] = before[i]

\* insert_edge stored a second edge to a target that already had one of
\* another weight.
C6_Witness ==
    /\ call.op = "insert_edge"
    /\ ret.flag
    /\ \E e \in get_adjacent_nodes_indices(before, findNode(before, call.x)) :
          /\ e.m_to = findNode(before, call.y)
          /\ e.m_weight # call.w

C8_FailedCallsChangeNothing ==
    /\ (call.op = "insert" /\ IsNode(before, call.x)) => m_nodes = before
    /\ (/\ call.op \in {"insert_edge", "erase_edge"}
        /\ (~IsNode(before, call.x) \/ ~IsNode(before, call.y)))
           => (m_nodes = before /\ ~ret.flag)
    /\ (call.op = "erase_value" /\ ~IsNode(before, call.x))
           => (m_nodes = before /\ ~ret.flag)

\* insert_edge towards a value that is not a node, from a node that has
\* edges.
C8_Witness ==
    /\ call.op = "insert_edge"
    /\ IsNode(before, call.x)
    /\ ~IsNode(before, call.y)
    /\ get_adjacent_nodes_indices(before, findNode(before, call.x)) # {}

C10_NewEdgeMakesUnequal ==
    (call.op = "insert_edge" /\ ret.flag) => operator_ne(m_nodes, before)

\* ----------------------------------------------------------------- C11
\* The node holding node_value (there is one).
node_of(nodes, node_value) == nodes[findNode(nodes, node_value) + 1]

C12_IterationFollowsEdgeOrder ==
    \A v \in NodeValues(m_nodes) :
        Resolvable(m_nodes, v) =>
            LET edges == edges_in_order(node_of(m_nodes, v).m_adjacentNodeIndices) IN
            adjacent_values_and_weights_in_order(m_nodes, v)
                = [i \in 1..Len(edges) |->
                      <<m_nodes[edges[i].m_to + 1].value, edges[i].m_weight>>]

\* C12 as amended: the collections iterate in ascending order of neighbour
\* value, and of (neighbour value, weight) for the pairs, whatever the
\* positions of the neighbours; they hold what the sets of C11 hold.
C12_IterationFollowsValueOrder ==
    \A v \in NodeValues(m_nodes) :
        Resolvable(m_nodes, v) =>
            LET values == adjacent_values_in_order(m_nodes, v)
                pairs == adjacent_values_and_weights_in_order(m_nodes, v) IN
            /\ \A i \in 1..(Len(values) - 1) : values[i] < values[i + 1]
            /\ \A i \in 1..(Len(pairs) - 1) : pair_less(pairs[i], pairs[i + 1])
            /\ {values[i] : i \in 1..Len(values)} = adjacent_values(m_nodes, v)
            /\ {pairs[i] : i \in 1..Len(pairs)}
                   = adjacent_values_and_weights(m_nodes, v)

\* A node whose edges, taken by target position, meet the greater
\* neighbour value first.
C12_Witness ==
    \E v \in NodeValues(m_nodes) :
        /\ Resolvable(m_nodes, v)
        /\ \E e1, e2 \in node_of(m_nodes, v).m_adjacentNodeIndices :
              /\ e1.m_to < e2.m_to
              /\ m_nodes[e1.m_to + 1].value > m_nodes[e2.m_to + 1].value

\* ----------------------------------------------------------------- C20
\* C20: erase(end()) and erase(first, last) with first = last leave the
\* node sequence and every adjacency set unchanged and return the end
\* iterator.
C20_EmptyEraseReturnsEnd ==
    (\/ call.op = "erase_pos" /\ call.x = size(before)
     \/ call.op = "erase_range" /\ call.x = call.y) =>
        /\ m_nodes = before
        /\ ret.pos = size(m_nodes)

\* C20 as amended: both calls leave the node sequence and every adjacency
\* set unchanged; erase(end()) returns the end iterator and erase(first,
\* last) with first = last returns that position, which is the end
\* iterator only when first is.
C20_EmptyEraseReturnsItsArgument ==
    (\/ call.op = "erase_pos" /\ call.x = size(before)
     \/ call.op = "erase_range" /\ call.x = call.y) =>
        /\ m_nodes = before
        /\ ret.pos = call.x

\* erase(first, first) at a node that edges point to.
C20_Witness ==
    /\ call.op = "erase_range"
    /\ call.x = call.y
    /\ call.x < size(before)
    /\ \E i \in 1..Len(before) :
          \E e \in before[i].m_adjacentNodeIndices : e.m_to = call.x

\* ------------------------------------------------- paths of the graph
\* The (target node value, weight) pairs of the stored edges of a node.
Successors(nodes, u) ==
    {<<nodes[e.m_to + 1].value, e.m_weight>> :
         e \in node_of(nodes, u).m_adjacentNodeIndices}

\* The nodes some directed path leads to from the nodes of `from`.
RECURSIVE ReachableFrom(_, _)
ReachableFrom(nodes, from) ==
    LET next == from \cup {p[1] : p \in UNION {Successors(nodes, u) : u \in from}} IN
    IF next = from THEN from ELSE ReachableFrom(nodes, next)

Reachable(nodes, start) == ReachableFrom(nodes, {start})

Min(S) == CHOOSE x \in S : \A y \in S : x <= y

\* The edges that leave the nodes of `from`, as <<source, target, weight>>.
Arcs(nodes, from) ==
    UNION {{<<u, p[1], p[2]>> : p \in Successors(nodes, u)} : u \in from}

\* d holds, for every node that a path of at most k edges leads to from the
\* start, the least total weight of such a path; the result holds the same
\* for paths of at most k + rounds edges.
RECURSIVE LeastWeights(_, _, _)
LeastWeights(nodes, d, rounds) ==
    IF rounds = 0 THEN d
    ELSE LET arcs == Arcs(nodes, DOMAIN d)
             candidates(v) ==
                 (IF v \in DOMAIN d THEN {d[v]} ELSE {})
                     \cup {d[a[1]] + a[3] : a \in {b \in arcs : b[2] = v}} IN
         LeastWeights(nodes,
                      [v \in DOMAIN d \cup {a[2] : a \in arcs} |->
                          Min(candidates(v))],
                      rounds - 1)

\* The least total weight of a directed path from start to every node
\* reachable from it; a least path has fewer edges than there are nodes.
Shortest(nodes, start) ==
    LeastWeights(nodes, [v \in {start} |-> 0], Len(nodes))

\* Every consecutive pair of the sequence is joined by an edge.
IsWalk(nodes, seq) ==
    \A i \in 1..(Len(seq) - 1) :
        \E p \in Successors(nodes, seq[i]) : p[1] = seq[i + 1]

\* The total weight of a walk, each step taking the lightest edge.
RECURSIVE WalkWeight(_, _)
WalkWeight(nodes, seq) ==
    IF Len(seq) <= 1 THEN 0
    ELSE Min({p[2] : p \in {q \in Successors(nodes, seq[1]) : q[1] = seq[2]}})
             + WalkWeight(nodes, Tail(seq))

NoRepeats(seq) == \A i, j \in 1..Len(seq) : seq[i] = seq[j] => i = j

\* ----------------------------------------------------------------- C13
\* C13: for a start that is a node of a graph with non-negative weights,
\* dijkstra(graph, start) returns a map whose keys are exactly the nodes
\* reachable from start, start mapped to 0, each key mapped to the least
\* total weight of a directed path from start to it.
C13_DijkstraDistances ==
    (algo = "dijkstra" /\ pc = "done" /\ IsNode(m_nodes, start_node)) =>
        /\ DOMAIN distances = Reachable(m_nodes, start_node)
        /\ distances[start_node] = 0
        /\ distances = Shortest(m_nodes, start_node)

\* dijkstra(graph, start) ended on a graph where the edge from start to
\* some node weighs more than the least path to it.
C13_Witness ==
    /\ algo = "dijkstra"
    /\ pc = "done"
    /\ IsNode(m_nodes, start_node)
    /\ \E p \in Successors(m_nodes, start_node) :
          /\ p[1] # start_node
          /\ \A q \in Successors(m_nodes, start_node) : q[1] = p[1] => q[2] > 0
          /\ distances[p[1]] = 0

\* ----------------------------------------------------------------- C14
\* C14: when end_node is reachable from start_node in a graph with
\* non-negative weights, dijkstra(graph, start_node, end_node) returns a
\* sequence that begins with start_node, ends with end_node, joins every
\* consecutive pair by an edge and has the least total weight of all paths
\* from start_node to end_node; in the graph of main() the path from 11 to
\* 44 is 11, 55, 66, 77, 44 and weighs 4.
C14_DijkstraPath ==
    (/\ algo = "dijkstra_path"
     /\ IsNode(m_nodes, start_node)
     /\ IsNode(m_nodes, end_node)
     /\ end_node \in Reachable(m_nodes, start_node)) =>
        /\ pc # "diverged"
        /\ pc = "done" =>
              /\ path # <<>>
              /\ path[1] = start_node
              /\ path[Len(path)] = end_node
              /\ IsWalk(m_nodes, path)
              /\ WalkWeight(m_nodes, path) = Shortest(m_nodes, start_node)[end_node]
              /\ (m_nodes = ScenarioGraph /\ start_node = 11 /\ end_node = 44) =>
                     /\ path = <<11, 55, 66, 77, 44>>
                     /\ WalkWeight(m_nodes, path) = 4

\* The search of main()'s graph from 11 to 44 has returned.
C14_Witness ==
    /\ algo = "dijkstra_path"
    /\ pc = "done"
    /\ m_nodes = ScenarioGraph
    /\ start_node = 11
    /\ end_node = 44
    /\ Len(path) = 5

\* ----------------------------------------------------------------- C15
\* C15: dijkstra(graph, start_node, end_node) returns an empty path when
\* start_node or end_node is not a node, and it does so before any step of
\* the search: nothing was pushed, no distance stored, no node visited.
C15_MissingEndpointEmptyPath ==
    (/\ algo = "dijkstra_path"
     /\ (~IsNode(m_nodes, start_node) \/ ~IsNode(m_nodes, end_node))) =>
        /\ pc = "done"
        /\ path = <<>>
        /\ pq = {}
        /\ distances = EmptyMap
        /\ previous = EmptyMap
        /\ visited = {}

\* The call with a start that is a node with edges and an end that is not
\* a node.
C15_Witness ==
    /\ algo = "dijkstra_path"
    /\ pc = "done"
    /\ IsNode(m_nodes, start_node)
    /\ ~IsNode(m_nodes, end_node)
    /\ Successors(m_nodes, start_node) # {}

\* ----------------------------------------------------------------- C16
\* C16: when start_node and end_node are different nodes and no directed
\* path leads from start_node to end_node, dijkstra(graph, start_node,
\* end_node) runs to completion and returns an empty path.
C16_NoPathEmptyPath ==
    (/\ algo = "dijkstra_path"
     /\ IsNode(m_nodes, start_node)
     /\ IsNode(m_nodes, end_node)
     /\ start_node # end_node
     /\ end_node \notin Reachable(m_nodes, start_node)) =>
        /\ pc # "diverged"
        /\ pc = "done" => path = <<>>

\* ----------------------------------------------------------------- C17
\* C17: for a start that is a node, bfs and dfs process every node
\* reachable from start exactly once and no other node; on a graph whose n
\* nodes are all reachable from start they process n distinct values.
C17_TraversalVisitsReachableOnce ==
    (algo \in {"dfs", "bfs"} /\ IsNode(m_nodes, start_node)) =>
        /\ NoRepeats(out)
        /\ Range(out) \subseteq Reachable(m_nodes, start_node)
        /\ pc = "done" =>
              /\ Range(out) = Reachable(m_nodes, start_node)
              /\ Reachable(m_nodes, start_node) = NodeValues(m_nodes)
                     => Len(out) = Len(m_nodes)

\* A traversal has ended on a graph with a cycle through start, a node
\* with two unvisited neighbours and a node out of reach.
C17_Witness ==
    /\ algo \in {"dfs", "bfs"}
    /\ pc = "done"
    /\ Len(out) = 2
    /\ Len(m_nodes) = 3
    /\ \E p \in Successors(m_nodes, out[2]) : p[1] = start_node

\* ----------------------------------------------------------------- C18
RECURSIVE SumOver(_, _)
SumOver(S, f) ==
    IF S = {} THEN 0
    ELSE LET x == CHOOSE y \in S : TRUE IN f[x] + SumOver(S \ {x}, f)

\* What a running dfs, bfs or dijkstra(graph, start) can still do.  A pass
\* of dfs or bfs takes one entry off the stack or queue and adds one for
\* every node it marks; a pass of dijkstra takes one pair off pq and, when
\* it marks the node, adds at most one pair per (neighbour, weight) of it.
Work ==
    LET pending == NodeValues(m_nodes) \ visited IN
    IF algo = "dijkstra"
    THEN Cardinality(pq)
             + SumOver(pending,
                       [u \in pending |->
                           1 + Cardinality(adjacent_values_and_weights(m_nodes, u))])
    ELSE Len(frontier) + 2 * Cardinality(pending)

\* C18: bfs, dfs and dijkstra(graph, start) terminate on every finite
\* graph, cycles, self-loops and parallel edges included: every pass of the
\* loop leaves less to do than there was, what is left is never negative,
\* the loop goes on exactly while the stack, queue or priority queue holds
\* something, and the function returns when it is empty.
C18_Terminates ==
    [][algo' \in {"dfs", "bfs", "dijkstra"} =>
          /\ pc' \in {"loop", "done"}
          /\ Work' >= 0
          /\ pc' = "loop" <=> (frontier' # <<>> \/ pq' # {})
          /\ pc = "loop" => Work' < Work]_vars

\* A function has returned on a graph with a self-loop, a cycle of two
\* nodes and parallel edges.
C18_Witness ==
    /\ algo \in {"dfs", "bfs", "dijkstra"}
    /\ pc = "done"
    /\ \E u \in NodeValues(m_nodes), v \in NodeValues(m_nodes) :
          /\ u # v
          /\ <<u, 0>> \in Successors(m_nodes, u)
          /\ <<v, 0>> \in Successors(m_nodes, u)
          /\ <<v, MaxWeight>> \in Successors(m_nodes, u)
          /\ u \in {p[1] : p \in Successors(m_nodes, v)}
          /\ start_node = u

\* ----------------------------------------------------------------- C19
\* C19: when start is not a node, dijkstra(graph, start) returns an empty
\* distance map and bfs and dfs process no node.
C19_MissingStartEmptyResult ==
    (/\ algo \in {"dfs", "bfs", "dijkstra"}
     /\ ~IsNode(m_nodes, start_node)) =>
        /\ out = <<>>
        /\ pc = "done" => distances = EmptyMap

\* The slots that are still allocated.
Allocated(slots) == {p \in 1..Len(slots) : slots[p] \in {"raw", "live", "dead"}}

\* The nodes that point at the slot p.
Owners(data, p) == {i \in 1..Len(data) : data[i] = p}

\* C21: when the construction of the node value fails during insert(v), the
\* graph is as if the call had never happened (same node sequence, same
\* adjacency sets, same size, every node on the slot it had) and the slot
\* allocated for the value has been released: no node owns it and it is
\* no longer allocated.
C21_FailedInsertLeavesNothing ==
    [][(call'.op = "insert" /\ call'.w = 1) =>
          /\ m_nodes' = m_nodes
          /\ size(m_nodes') = size(m_nodes)
          /\ m_data' = m_data
          /\ Len(heap') = Len(heap) + 1
          /\ \A p \in 1..Len(heap) : heap'[p] = heap[p]
          /\ heap'[Len(heap')] = "released"
          /\ Owners(m_data', Len(heap')) = {}]_vars

\* A node with an edge is stored and an insert of another value has just
\* failed in the constructor of T.
C21_Witness ==
    /\ call.op = "insert"
    /\ call.w = 1
    /\ ~IsNode(m_nodes, call.x)
    /\ \E i \in 1..Len(m_nodes) : m_nodes[i].m_adjacentNodeIndices # {}
    /\ heap # <<>>
    /\ heap[Len(heap)] = "released"

\* C25: after any sequence of insert and erase calls every slot that was
\* allocated is either owned by exactly one node of the store and holds its
\* value, or was destroyed and deallocated exactly once; no slot is
\* allocated without an owner, none is released twice, and the live slots
\* are as many as size().
C25_NoSlotLeakedOrReleasedTwice ==
    /\ Len(m_data) = Len(m_nodes)
    /\ \A p \in 1..Len(heap) :
          \/ heap[p] = "live" /\ Cardinality(Owners(m_data, p)) = 1
          \/ heap[p] = "released" /\ Owners(m_data, p) = {}
    /\ Cardinality({p \in 1..Len(heap) : heap[p] = "live"}) = size(m_nodes)

\* C22: any two adjacency iterators that hold no graph compare equal, so
\* for a value v that is no node begin(v) == end(v) and cbegin(v) ==
\* cend(v), in one graph and across two (the second one is empty); an
\* iterator that holds no graph never compares equal to one that holds a
\* graph.
C22_NoGraphIteratorsAreEqual ==
    LET none == NoGraphIterators
        some == GraphIterators
        graphs == {this_graph, other_graph} IN
    /\ \A l \in none, r \in none : adjacent_eq(l, r) /\ ~adjacent_ne(l, r)
    /\ \A g \in graphs, h \in graphs :
          \A v \in PairValues, u \in PairValues :
              (~IsNode(nodes_of(g), v) /\ ~IsNode(nodes_of(h), u)) =>
                  /\ cbegin_adjacent(g, v).m_graph = nullptr
                  /\ adjacent_eq(cbegin_adjacent(g, v), cend_adjacent(g, v))
                  /\ adjacent_eq(cbegin_adjacent(g, v), cend_adjacent(h, u))
                  /\ adjacent_eq(cend_adjacent(h, u), cbegin_adjacent(g, v))
    /\ \A l \in none, r \in some : ~adjacent_eq(l, r) /\ ~adjacent_eq(r, l)

\* The graph lacks a value and holds a node with an edge, so that iterators
\* with and without a graph exist.
C22_Witness ==
    /\ \E v \in PairValues : ~IsNode(m_nodes, v) /\ ~IsNode(rhs_nodes, v)
    /\ \E p \in SetPositions : p.graph = this_graph /\ p.rank > 0
    /\ Cardinality(NoGraphIterators) > 2
    /\ Cardinality(GraphIterators) > 1

\* C23: at(index) fails with std::out_of_range for every index >= size()
\* and leaves the graph unchanged; for every index < size() it returns the
\* value of the node at that position, the value operator[] returns.
C23_AtIsBoundsChecked ==
    call.op = "at" =>
        /\ m_nodes = before
        /\ call.x >= size(before) => ret.flag
        /\ call.x < size(before) =>
              /\ ~ret.flag
              /\ ret.pos = before[call.x + 1].value
              /\ ~operator_index(before, call.x).thrown
              /\ ret.pos = operator_index(before, call.x).value

\* at(size()) has been called on a graph with nodes.
C23_Witness ==
    /\ call.op = "at"
    /\ before # <<>>
    /\ call.x = size(before)
    /\ ret.flag

\* The position that the observed erase(value) or erase(pos) removes.
ErasedIndex ==
    IF call.op = "erase_value" THEN findNode(before, call.x) ELSE call.x

\* C24: the reindex pass that runs before position i is removed changes
\* each adjacency set only so: every edge with target i is dropped, every
\* edge with target > i reappears with its target one less and the same
\* weight, every edge with target < i is unchanged; no two surviving edges
\* are merged, so each set has afterwards its former size minus the number
\* of its edges that targeted i.  The call then removes position i from the
\* outcome of the pass.
C24_ReindexPass ==
    (\/ call.op = "erase_value" /\ IsNode(before, call.x)
     \/ call.op = "erase_pos" /\ call.x < size(before)) =>
        LET i == ErasedIndex
            pass == remove_all_links_to(before, i) IN
        /\ Len(pass) = Len(before)
        /\ \A j \in 1..Len(before) :
              LET old == before[j].m_adjacentNodeIndices
                  new == pass[j].m_adjacentNodeIndices IN
              /\ pass[j].value = before[j].value
              /\ \A e \in old : e.m_to < i => e \in new
              /\ \A e \in old :
                    e.m_to > i => graph_edge(e.m_to - 1, e.m_weight) \in new
              /\ \A e \in new :
                    \/ e.m_to < i /\ e \in old
                    \/ e.m_to >= i /\ graph_edge(e.m_to + 1, e.m_weight) \in old
              /\ Cardinality(new)
                     = Cardinality(old) - Cardinality({e \in old : e.m_to = i})
        /\ m_nodes = vector_erase(pass, i, i + 1)

\* A node held an edge to the erased position i and one of the same weight
\* to position i + 1: the first is gone and the second has taken its key.
C24_Witness ==
    /\ call.op \in {"erase_value", "erase_pos"}
    /\ size(m_nodes) = size(before) - 1
    /\ \E j \in 1..Len(before) : \E w \in Weights :
          /\ j # ErasedIndex + 1
          /\ graph_edge(ErasedIndex, w) \in before[j].m_adjacentNodeIndices
          /\ graph_edge(ErasedIndex + 1, w) \in before[j].m_adjacentNodeIndices
          /\ Cardinality(remove_all_links_to(before, ErasedIndex)[j]
                             .m_adjacentNodeIndices) = 1

\* The values of the nodes, by position.
ValueSequence(nodes) == [i \in 1..Len(nodes) |-> nodes[i].value]

\* C26: the node sequence is insertion-ordered: a newly inserted value is
\* placed at the last position; erasing the node at position i moves every
\* later node down by exactly one position and reorders no other; forward
\* iteration from begin() to end() yields the nodes in position order and
\* reverse iteration their exact reverse, both with exactly size() elements.
C26_InsertionOrdered ==
    /\ (call.op = "insert" /\ ret.flag) =>
          /\ ValueSequence(m_nodes) = Append(ValueSequence(before), call.x)
          /\ ret.pos = size(m_nodes) - 1
    /\ (\/ call.op = "erase_value" /\ IsNode(before, call.x)
        \/ call.op = "erase_pos" /\ call.x < size(before)) =>
          /\ size(m_nodes) = size(before) - 1
          /\ \A k \in 0..(size(m_nodes) - 1) :
                m_nodes[k + 1].value
                    = before[IF k < ErasedIndex THEN k + 1 ELSE k + 2].value
    /\ forward_iteration(this_graph) = ValueSequence(m_nodes)
    /\ Len(forward_iteration(this_graph)) = size(m_nodes)
    /\ reverse_iteration(this_graph) = Reverse(ValueSequence(m_nodes))
    /\ Len(reverse_iteration(this_graph)) = size(m_nodes)

\* The first of three nodes has been erased: the two behind it have moved
\* down in their order.
C26_Witness ==
    /\ call.op \in {"erase_value", "erase_pos"}
    /\ size(before) = 3
    /\ ErasedIndex = 0
    /\ size(m_nodes) = 2
    /\ forward_iteration(this_graph)
           = <<before[2].value, before[3].value>>

C28_EqualityIsEquivalence ==
    LET g == m_nodes
        h == rhs_nodes IN
    /\ operator_eq(g, g)
    /\ operator_eq(h, h)
    /\ operator_eq(g, h) <=> operator_eq(h, g)
    /\ operator_eq(g, h) =>
          \A k \in BuiltGraphs : operator_eq(h, k) => operator_eq(g, k)
    /\ operator_ne(g, h) <=> ~operator_eq(g, h)
    /\ operator_ne(h, g) <=> ~operator_eq(h, g)
    /\ operator_ne(g, g) <=> ~operator_eq(g, g)

\* Three graphs, equal in a chain, no two of which are the same vector:
\* they store their edge under different weights.
C28_Witness ==
    /\ operator_eq(m_nodes, rhs_nodes)
    /\ m_nodes # rhs_nodes
    /\ EdgeCount(m_nodes) > 0
    /\ rhs_nodes \in BuiltGraphs
    /\ \E k \in BuiltGraphs :
          /\ operator_eq(rhs_nodes, k)
          /\ operator_eq(m_nodes, k)
          /\ k # m_nodes
          /\ k # rhs_nodes

\* ----------------------------------------------------------------- C29
\* The node sequence and the value-level adjacency of a graph: for every
\* node value, the neighbour values with their weights.
Contents(nodes) ==
    [sequence |-> ValueSequence(nodes),
     adjacency |-> [v \in NodeValues(nodes) |->
                       adjacent_values_and_weights(nodes, v)]]

\* C29: a.swap(b) leaves in a the node sequence and the neighbour values
\* and weights of every node that b held before the call, and in b those
\* that a held; a second a.swap(b) straight after the first leaves both
\* graphs as they were before the first.
C29_SwapExchangesContents ==
    [][/\ (call # call' /\ call'.op = "swap" /\ call'.x = 1) =>
            /\ Contents(m_nodes') = Contents(rhs_nodes)
            /\ Contents(rhs_nodes') = Contents(m_nodes)
       /\ (call # call' /\ call'.op = "swap" /\ call'.x = 2) =>
            /\ Contents(m_nodes') = Contents(m_nodes)
            /\ Contents(rhs_nodes') = Contents(rhs_nodes)]_vars

\* A swap has run on two different graphs, each with an edge, and their
\* first nodes differ.
C29_Witness ==
    /\ call.op = "swap"
    /\ Contents(m_nodes) # Contents(rhs_nodes)
    /\ EdgeCount(m_nodes) > 0
    /\ EdgeCount(rhs_nodes) > 0
    /\ m_nodes[1].value # rhs_nodes[1].value

====
